---- MODULE Spec2Model ----
(***************************************************************************)
(* Model of the beach prediction cache of clean-coast-backend:             *)
(* get_beach_predictions (src/api/routes/trash.py) over the table          *)
(* beach_predictions (src/models/beach_prediction.py) and the registry     *)
(* beaches (src/models/beach.py), one SQLAlchemy session per request       *)
(* (src/core/database.py).                                                 *)
(*                                                                         *)
(* The database is modelled by its committed state: `store` holds the      *)
(* committed rows, a session's DELETE and its added objects stay in the    *)
(* session (session_deleted, session_new) until db.commit() applies them   *)
(* in one step, and db.rollback() discards them.  Row locks are not        *)
(* modelled: a statement never waits for another session.  Rows differ     *)
(* only by their primary key id, which nothing reads, so the table is      *)
(* kept as a bag of rows without the id.                                   *)
(*                                                                         *)
(* The external observation services and the regression model are the      *)
(* environment: each call either raises or returns a value.  trash.py      *)
(* calls fetchers.fetch_wind with three arguments, fetchers.fetch_         *)
(* temperature, and BeachPrediction(temperature=...); the copies of        *)
(* fetch/fetchers.py and models/beach_prediction.py in the tree have an    *)
(* older shape (fetch_wind(lat, lot), no fetch_temperature, no temperature *)
(* column).  The model follows the calls as trash.py makes them.           *)
(*                                                                         *)
(* Beside it: the three classifiers of a trash amount (trash.py lines      *)
(* 99-105, dashboard.py lines 62-81) applied to amounts around their       *)
(* thresholds (ClassSpec), and get_dashboard (src/api/routes/dashboard.py) *)
(* as a reader of the table, applied to small tables on chosen days        *)
(* (DashSpec).  Amounts are floats in the code and integers in thousandths *)
(* of a kilogram here; dates are day numbers, 2024-01-01 being day 1.      *)
(*                                                                         *)
(* And the two fetchers of src/fetch/fetchers.py as that file defines      *)
(* them, applied to decoded responses of their providers (CurrentSpec,     *)
(* WindSpec): the HTTP exchange is the environment, the model starts from  *)
(* the decoded JSON.                                                       *)
(***************************************************************************)
EXTENDS Integers, Sequences, FiniteSets, Bags, TLC

\* ---------------------------------------------------------------- bounds
NumSites == 2
NumDates == 1
NumProcs == 2
\* classifiers: how far around a threshold, in thousandths of a kilogram, the
\* amounts tried lie
Near == 2
\* dashboard: the greatest number of rows in the table
MaxRows == 2
\* fetchers: the greatest number of items in a provider's response
MaxItems == 4
\* fetchers: the greatest number of readings in the wind provider's response
MaxReadings == 3

Sites == 1..NumSites
Dates == 1..NumDates
Procs == 1..NumProcs

\* amounts of trash are floats in the code; the model keeps them as integers in
\* thousandths of a kilogram
Kg(n) == n * 1000

\* values the regression model may return, and temperatures the provider may return
Masses == {Kg(300)}
Temps == {18}

\* an optional value: <<>> is Python's None (or a raised exception for a call),
\* <<v>> is the value v
None == <<>>
Raised == <<>>
Some(v) == <<v>>

VARIABLES
    beaches,            \* table beaches, in the order db.query(Beach).all() returns it
    store,              \* committed rows of beach_predictions (a bag)
    broken,             \* environment: sites whose observations fail on every call
    pc,                 \* per request: position in get_beach_predictions
    target_date,        \* per request: target_date
    cached_predictions, \* per request: result of the query at lines 198-200
    session_deleted,    \* per request: the rows its DELETE removed, not yet committed
    session_new,        \* per request: objects added with db.add, not yet committed
    results,            \* per request: results
    idx,                \* per request: position of the for loop over beaches
    response,           \* per request: "none", "200" or "500"
    path,               \* observation: "none", "hit", "miss", "failed" (commit refused),
                        \* "refused" (DELETE refused) or "malformed" (the date did not parse)
    called,             \* observation: the request has made an external call
    attempted,          \* observation: sites the per-site step ran for, in order
    commits,            \* observation: number of db.commit() calls of the request
    envok,              \* observation: sites whose current, wind and prediction succeeded
    tempfail,           \* observation: sites of envok whose temperature fetch raised
    mass,               \* classifiers: the mass (trash amount) given
    stored_status,      \* classifiers: the status column of the record that carries it
    classified,         \* classifiers: None, or the labels computed for the mass
    today,              \* dashboard: date.today() of the request
    current_predictions,\* dashboard: the rows of the query of lines 150-154, as returned
    dashboard,          \* dashboard: None, or the response of get_dashboard
    fetch_point,        \* fetchers: the arguments <<lat, lot>> of the call
    fetch_data,         \* fetchers: the decoded JSON body of the provider's response
    fetch_result        \* fetchers: None, or what the call returned or raised

\* the variables of get_beach_predictions, and those of the classifiers
pvars == <<beaches, store, broken, pc, target_date, cached_predictions, session_deleted,
           session_new, results, idx, response, path, called, attempted, commits,
           envok, tempfail>>
cvars == <<mass, stored_status, classified>>
dvars == <<today, current_predictions, dashboard>>
fvars == <<fetch_point, fetch_data, fetch_result>>
vars == <<pvars, cvars, dvars, fvars>>

\* ------------------------------------------------------------ the calendar
\* Python's date: a date is kept as its number of days, 2024-01-01 being day 1
IsLeap(y) == (y % 4 = 0 /\ y % 100 # 0) \/ y % 400 = 0
DaysInYear(y) == IF IsLeap(y) THEN 366 ELSE 365
DaysInMonth(y, m) ==
    IF m = 2 THEN (IF IsLeap(y) THEN 29 ELSE 28)
    ELSE IF m \in {4, 6, 9, 11} THEN 30 ELSE 31

RECURSIVE DaysBeforeYear(_)
DaysBeforeYear(y) == IF y <= 2024 THEN 0 ELSE DaysBeforeYear(y - 1) + DaysInYear(y - 1)
RECURSIVE DaysBeforeMonth(_, _)
DaysBeforeMonth(y, m) == IF m <= 1 THEN 0 ELSE DaysBeforeMonth(y, m - 1) + DaysInMonth(y, m - 1)

\* date(y, m, d)
DateOf(y, m, d) == DaysBeforeYear(y) + DaysBeforeMonth(y, m) + d

RECURSIVE YearFrom(_, _)
YearFrom(y, n) == IF n <= DaysInYear(y) THEN y ELSE YearFrom(y + 1, n - DaysInYear(y))
RECURSIVE MonthFrom(_, _, _)
MonthFrom(y, m, n) ==
    IF n <= DaysInMonth(y, m) THEN m ELSE MonthFrom(y, m + 1, n - DaysInMonth(y, m))

\* the days of 2024, 2025 and 2026 with their year, month and day of the month
Calendar ==
    [d \in 1..DateOf(2026, 12, 31) |->
        LET y == YearFrom(2024, d)
            m == MonthFrom(y, 1, d - DaysBeforeYear(y))
        IN [year |-> y, month |-> m, day |-> d - DaysBeforeYear(y) - DaysBeforeMonth(y, m)]]

\* d.year, d.month, d.day
YearOf(d) == Calendar[d].year
MonthOf(d) == Calendar[d].month
DayOf(d) == Calendar[d].day

\* a date string is kept as the sequence of the numbers between its dashes:
\* "2024-01-15" is <<2024, 1, 15>>, "2024-01" is <<2024, 1>>
DateString(d) == <<YearOf(d), MonthOf(d), DayOf(d)>>

\* line 185: datetime.strptime(prediction_date, "%Y-%m-%d").date(), Raised for
\* ValueError
strptime(s) ==
    IF Len(s) = 3 /\ s[1] >= 2024 /\ s[2] \in 1..12 /\ s[3] >= 1
       /\ s[3] <= DaysInMonth(s[1], s[2])
    THEN Some(DateOf(s[1], s[2], s[3]))
    ELSE Raised

\* lines 182-190: the target date of a request; prediction_date None means today
ParseTargetDate(prediction_date, now) ==
    IF prediction_date = None THEN Some(now) ELSE strptime(prediction_date)

\* the query parameter prediction_date a request may carry
MalformedDates == {<<2024, 13, 1>>, <<2024, 2, 30>>, <<2024, 1>>}
DateInputs == {None} \cup {DateString(d) : d \in Dates} \cup MalformedDates

\* ------------------------------------------------------------ the registry
Latitude(s) == 33 + s
Longitude(s) == 126 + s
Registry == [i \in 1..NumSites |-> i]

Range(f) == {f[i] : i \in DOMAIN f}

\* ------------------------------------------------------------- classifier
TrashStatusInclusive(trash_amount) ==
    IF trash_amount <= Kg(200) THEN "LOW"
    ELSE IF trash_amount <= Kg(300) THEN "MEDIUM"
    ELSE "HIGH"

\* trash.py lines 99-105
TrashStatus(trash_amount) ==
    IF trash_amount < Kg(200) THEN "LOW"
    ELSE IF trash_amount < Kg(300) THEN "MEDIUM"
    ELSE "HIGH"

RiskLevelOnStatusScale(trash_amount) ==
    IF trash_amount >= Kg(400) THEN "HIGH"
    ELSE IF trash_amount >= Kg(300) THEN "MEDIUM"
    ELSE "LOW"

RiskLevelHighFrom300(trash_amount) ==
    IF trash_amount >= Kg(300) THEN "HIGH"
    ELSE IF trash_amount >= Kg(250) THEN "MEDIUM"
    ELSE "LOW"

\* dashboard.py lines 62-69
calculate_risk_level(trash_amount) ==
    IF trash_amount >= Kg(400) THEN "HIGH"
    ELSE IF trash_amount >= Kg(250) THEN "MEDIUM"
    ELSE "LOW"

ActionTypeExclusive(trash_amount) ==
    IF trash_amount > Kg(400) THEN "IMMEDIATE"
    ELSE IF trash_amount > Kg(300) THEN "MONITOR"
    ELSE IF trash_amount > Kg(200) THEN "REGULAR"
    ELSE "WATCH"

\* dashboard.py lines 72-81
calculate_action_type(trash_amount) ==
    IF trash_amount >= Kg(400) THEN "IMMEDIATE"
    ELSE IF trash_amount >= Kg(300) THEN "MONITOR"
    ELSE IF trash_amount >= Kg(200) THEN "REGULAR"
    ELSE "WATCH"

\* ------------------------------------------------------------------ rows
RowsOf(rows, d) ==
    [r \in {x \in DOMAIN rows : x.prediction_date = d} |-> rows[r]]
NamesOf(rows) == {r.beach_name : r \in DOMAIN rows}
RowsFor(rows, s, d) ==
    [r \in {x \in DOMAIN rows : x.beach_name = s /\ x.prediction_date = d} |-> rows[r]]
SeqToBag(seq) ==
    [r \in Range(seq) |-> Cardinality({i \in DOMAIN seq : seq[i] = r})]

\* the response entry built from a row (lines 212-224) or from the values of the
\* per-site step (lines 262-274): temperature None (or 0.0) is reported as 0
BeachPredictionResponse(name, d, lat, lon, amount, status, temperature) ==
    [name |-> name, date |-> d, latitude |-> lat, longitude |-> lon,
     trash_amount |-> amount, status |-> status,
     temperature |-> IF temperature = None \/ temperature = Some(0)
                     THEN 0 ELSE temperature[1]]

ResponseOfRowWithoutTemperature(r) ==
    BeachPredictionResponse(r.beach_name, r.prediction_date, r.latitude, r.longitude,
                            r.trash_amount, r.status, None)

\* lines 211-224: the entry of the cache-hit branch for the row pred
ResponseOfRow(r) ==
    BeachPredictionResponse(r.beach_name, r.prediction_date, r.latitude, r.longitude,
                            r.trash_amount, r.status, r.temperature)

\* the orders in which a query without ORDER BY may return the rows
QueryOrders(rows) ==
    {f \in [1..BagCardinality(rows) -> DOMAIN rows] : SeqToBag(f) = rows}

\* ---------------------------------------------------- completeness check
IsCompleteListVsSet(cached_beach_names, all_beach_names) == FALSE
IsCompleteSubset(cached_beach_names, all_beach_names) ==
    cached_beach_names # {} /\ cached_beach_names \subseteq all_beach_names
IsCompleteAnyCached(cached_beach_names, all_beach_names) == cached_beach_names # {}

\* line 209: cached_beach_names == all_beach_names
IsComplete(cached_beach_names, all_beach_names) ==
    cached_beach_names = all_beach_names

BeachesMissing(all_beaches, cached) ==
    SelectSeq(all_beaches, LAMBDA s : s \notin NamesOf(cached))

\* line 234: for beach in beaches (every beach, cached or not)
BeachesToCompute(all_beaches, cached) == all_beaches

RowsToDeleteNone(rows, d) == EmptyBag
RowsToDeleteAll(rows, d) == rows

\* lines 230-232: the rows the DELETE of the date removes
RowsToDelete(rows, d) == RowsOf(rows, d)

VisibleAutocommit(rows, deleted) == rows (-) deleted

\* database.py line 26, autocommit=False: the committed rows after a DELETE that
\* has not been committed
VisibleAfterDelete(rows, deleted) == rows

\* ------------------------------------------------------ the per-site step
\* lines 64-107: fetch_current, fetch_wind, predict_by_vector, status
calculate_trash_prediction(current, wind, predicted) ==
    IF current = Raised THEN Raised
    ELSE IF wind = Raised THEN Raised
    ELSE IF predicted = Raised THEN Raised
    ELSE Some(<<predicted[1], TrashStatus(predicted[1])>>)

TemperatureRaises(fetched) == IF fetched = Raised THEN Raised ELSE Some(fetched)

\* lines 243-247: a failing fetch_temperature leaves temperature = None
TemperatureOf(fetched) == IF fetched = Raised THEN Some(None) ELSE Some(fetched)

\* external calls of one per-site step
CallsOf(current, wind, predicted) ==
    IF current = Raised THEN 1
    ELSE IF wind = Raised THEN 2
    ELSE IF predicted = Raised THEN 3
    ELSE 4

\* the object built at lines 250-258; the temperature attribute is the one
\* trash.py writes and reads (the record's optional temperature)
BeachPrediction(beach_name, prediction_date, lat, lon, trash_amount, status, temperature) ==
    [beach_name |-> beach_name, prediction_date |-> prediction_date,
     latitude |-> lat, longitude |-> lon,
     trash_amount |-> trash_amount, status |-> status, temperature |-> temperature]

\* lines 235-279: the body of the loop for one beach; the new object, or Raised
\* when the beach is skipped
SiteResult(s, d, current, wind, predicted, fetched) ==
    LET p == calculate_trash_prediction(current, wind, predicted)
        t == TemperatureOf(fetched)
    IN IF p = Raised \/ t = Raised THEN Raised
       ELSE Some(BeachPrediction(s, d, Latitude(s), Longitude(s), p[1][1], p[1][2], t[1]))

CommitStoreUpsert(rows, deleted, new) ==
    LET fresh == SeqToBag(new)
        kept == rows (-) deleted
        others == {r \in DOMAIN kept :
                      \A n \in DOMAIN fresh : r.beach_name # n.beach_name
                                              \/ r.prediction_date # n.prediction_date}
    IN [r \in others |-> kept[r]] (+) fresh

CommitWithoutAdded(rows, deleted, new) == rows (-) deleted

\* line 282: db.commit() flushes the session: the deleted rows go, the added
\* objects become rows
CommitStore(rows, deleted, new) == (rows (-) deleted) (+) SeqToBag(new)

RollbackKeepsDelete(rows, deleted, new) == rows (-) deleted

\* line 290: db.rollback() discards the DELETE and the added objects of the
\* session; the committed rows stay
RollbackStore(rows, deleted, new) == rows

\* line 194: if not beaches
RegistryNeverMissing(all_beaches) == FALSE
RegistryMissing(all_beaches) == all_beaches = <<>>

\* lines 289-291: except Exception catches whatever the body raised, the
\* HTTPException of line 187 included, and answers 500
OuterExcept(status_code) == "500"

ResponseAllOrNothing(res) == IF Len(res) < Len(beaches) THEN "500" ELSE "200"

\* lines 284-287: an empty result list is an error
ResponseOf(res) == IF res = <<>> THEN "500" ELSE "200"

\* ------------------------------------------------------------ the fetchers
\* what a call gives: the value it returns, or the message of the Exception it
\* raises ("format": the response does not have the expected shape, "provider":
\* the provider reports an error, "nodata": no valid data)
Returned(v) == [error |-> "none", value |-> v]
Exception(msg) == [error |-> msg, value |-> <<>>]

\* a JSON object is a function from its keys; d[k] of a number field is the number
CurrentKeys == {"current_dir", "current_speed", "pre_lat", "pre_lon"}

\* fetchers.py lines 53-56: the item is not skipped
HasCurrentFields(d) ==
    /\ "current_dir" \in DOMAIN d /\ "current_speed" \in DOMAIN d
    /\ "pre_lat" \in DOMAIN d /\ "pre_lon" \in DOMAIN d

\* line 61: np.sqrt((lat - data_lat)**2 + (lot - data_lon)**2); the square root
\* keeps the order, the model compares the squares
Distance(lat, lot, d) ==
    (lat - d["pre_lat"]) * (lat - d["pre_lat"]) + (lot - d["pre_lon"]) * (lot - d["pre_lon"])

\* line 49: float('inf')
Infinity == <<>>

CloserOrEqual(distance, min_distance) ==
    min_distance = Infinity \/ distance <= min_distance[1]

\* line 63: distance < min_distance
Closer(distance, min_distance) ==
    min_distance = Infinity \/ distance < min_distance[1]

\* lines 52-65: the loop over data['result']['data']; closest_data at its end
RECURSIVE ClosestData(_, _, _, _, _)
ClosestData(items, lat, lot, min_distance, closest_data) ==
    IF items = <<>> THEN closest_data
    ELSE LET d == Head(items) IN
         IF ~HasCurrentFields(d)
         THEN ClosestData(Tail(items), lat, lot, min_distance, closest_data)
         ELSE IF Closer(Distance(lat, lot, d), min_distance)
              THEN ClosestData(Tail(items), lat, lot, Some(Distance(lat, lot, d)), Some(d))
              ELSE ClosestData(Tail(items), lat, lot, min_distance, closest_data)

\* lines 45-70; data is None when 'result' or 'data' is missing, else Some of
\* the list data['result']['data']
fetch_current(data, lat, lot) ==
    IF data = None THEN Exception("format")
    ELSE LET closest_data == ClosestData(data[1], lat, lot, Infinity, None)
         IN IF closest_data = None THEN Exception("nodata")
            ELSE Returned(<<closest_data[1]["current_dir"], closest_data[1]["current_speed"]>>)

\* lines 114-117: the reading is skipped; a field is None (JSON null) or
\* Some(number)
SkipReading(item) ==
    \/ "wndrct" \notin DOMAIN item \/ "wspd" \notin DOMAIN item
    \/ item["wndrct"] = None \/ item["wspd"] = None

\* lines 109-120: the loop over the readings; <<total_wind_dir,
\* total_wind_speed, cnt>> at its end
RECURSIVE WindTotals(_, _, _, _)
WindTotals(items, total_wind_dir, total_wind_speed, cnt) ==
    IF items = <<>> THEN <<total_wind_dir, total_wind_speed, cnt>>
    ELSE LET item == Head(items) IN
         IF SkipReading(item)
         THEN WindTotals(Tail(items), total_wind_dir, total_wind_speed, cnt)
         ELSE WindTotals(Tail(items), total_wind_dir + item["wndrct"][1],
                         total_wind_speed + item["wspd"][1], cnt + 1)

\* a quotient total / cnt is kept as the pair <<total, cnt>>
MeanOverAllReadings(data) ==
    IF data.header = None THEN Exception("format")
    ELSE IF data.header[1] # "00" THEN Exception("provider")
    ELSE IF data.body = None THEN Exception("format")
    ELSE LET totals == WindTotals(data.body[1], 0, 0, 0)
         IN IF totals[3] = 0 THEN Exception("nodata")
            ELSE Returned(<<<<totals[1], Len(data.body[1])>>, <<totals[2], Len(data.body[1])>>>>)

\* lines 96-125; data.header is None when 'header' is missing, else Some of
\* data['header']['resultCode']; data.body is None when 'body', 'items' or
\* 'item' is missing, else Some of the list data['body']['items']['item']
fetch_wind(data) ==
    IF data.header = None THEN Exception("format")
    ELSE IF data.header[1] # "00" THEN Exception("provider")
    ELSE IF data.body = None THEN Exception("format")
    ELSE LET totals == WindTotals(data.body[1], 0, 0, 0)
         IN IF totals[3] = 0 THEN Exception("nodata")
            ELSE Returned(<<<<totals[1], totals[3]>>, <<totals[2], totals[3]>>>>)

\* ------------------------------------------------------------------ Init
\* the rows at the start: none, or, beside an emptied registry, a row left from
\* the time the registry had beaches (the tables are not linked by a key)
InitialRows(all_beaches) ==
    IF all_beaches = <<>>
    THEN {EmptyBag,
          SeqToBag(<<BeachPrediction(1, 1, Latitude(1), Longitude(1),
                                     Kg(300), TrashStatus(Kg(300)), None)>>)}
    ELSE {EmptyBag}

\* no request is being served
SessionsIdle ==
    /\ pc = [p \in Procs |-> "idle"]
    /\ target_date = [p \in Procs |-> 0]
    /\ cached_predictions = [p \in Procs |-> EmptyBag]
    /\ session_deleted = [p \in Procs |-> EmptyBag]
    /\ session_new = [p \in Procs |-> <<>>]
    /\ results = [p \in Procs |-> <<>>]
    /\ idx = [p \in Procs |-> 0]
    /\ response = [p \in Procs |-> "none"]
    /\ path = [p \in Procs |-> "none"]
    /\ called = [p \in Procs |-> FALSE]
    /\ attempted = [p \in Procs |-> <<>>]
    /\ commits = [p \in Procs |-> 0]
    /\ envok = [p \in Procs |-> {}]
    /\ tempfail = [p \in Procs |-> {}]

PredictionInit ==
    /\ beaches \in {<<>>, Registry}
    /\ store \in InitialRows(beaches)
    /\ broken \in SUBSET Sites
    /\ SessionsIdle

\* no classification is asked for
ClassIdle ==
    /\ mass = 0
    /\ stored_status = "LOW"
    /\ classified = None

\* no dashboard is asked for
DashIdle ==
    /\ today = 0
    /\ current_predictions = <<>>
    /\ dashboard = None

\* no fetcher is being called
FetchIdle ==
    /\ fetch_point = <<0, 0>>
    /\ fetch_data = None
    /\ fetch_result = None

Init == PredictionInit /\ ClassIdle /\ DashIdle /\ FetchIdle

\* --------------------------------------------------------------- actions
\* lines 180-224: parse the date, read the registry and the rows of the date,
\* and on a complete date answer from the rows read
Lookup(p, d) ==
    /\ UNCHANGED <<cvars, dvars, fvars>>
    /\ pc[p] = "idle"
    /\ target_date' = [target_date EXCEPT ![p] = d]
    /\ UNCHANGED <<beaches, store, broken, session_deleted, session_new, idx, called,
                   attempted, commits, envok, tempfail>>
    /\ IF RegistryMissing(beaches)
       THEN \* line 195: raise, line 290: rollback, line 291: HTTP 500
            /\ pc' = [pc EXCEPT ![p] = "done"]
            /\ response' = [response EXCEPT ![p] = OuterExcept("500")]
            /\ UNCHANGED <<cached_predictions, results, path>>
       ELSE LET cached == RowsOf(store, d) IN
            /\ cached_predictions' = [cached_predictions EXCEPT ![p] = cached]
            /\ IF IsComplete(NamesOf(cached), Range(beaches))
               THEN /\ \E order \in QueryOrders(cached) :
                         results' = [results EXCEPT ![p] =
                                        [i \in 1..Len(order) |-> ResponseOfRow(order[i])]]
                    /\ path' = [path EXCEPT ![p] = "hit"]
                    /\ response' = [response EXCEPT ![p] = ResponseOf(results'[p])]
                    /\ pc' = [pc EXCEPT ![p] = "done"]
               ELSE /\ path' = [path EXCEPT ![p] = "miss"]
                    /\ pc' = [pc EXCEPT ![p] = "invalidate"]
                    /\ UNCHANGED <<results, response>>

\* lines 183-187 and 289-291: the date does not parse, line 187 raises
\* HTTPException(400) inside the try, and the except clause of line 289 takes it
BadDate(p) ==
    /\ UNCHANGED <<cvars, dvars, fvars>>
    /\ pc[p] = "idle"
    /\ pc' = [pc EXCEPT ![p] = "done"]
    /\ response' = [response EXCEPT ![p] = OuterExcept("400")]
    /\ path' = [path EXCEPT ![p] = "malformed"]
    /\ UNCHANGED <<beaches, store, broken, target_date, cached_predictions,
                   session_deleted, session_new, results, idx, called, attempted,
                   commits, envok, tempfail>>

\* a request arrives with its query parameter; now is date.today()
Request(p, prediction_date, now) ==
    \/ /\ ParseTargetDate(prediction_date, now) # Raised
       /\ Lookup(p, ParseTargetDate(prediction_date, now)[1])
    \/ /\ ParseTargetDate(prediction_date, now) = Raised
       /\ BadDate(p)

\* lines 229-232: DELETE the rows of the date, inside the session's transaction
Invalidate(p) ==
    /\ UNCHANGED <<cvars, dvars, fvars>>
    /\ pc[p] = "invalidate"
    /\ session_deleted' = [session_deleted EXCEPT
                              ![p] = RowsToDelete(store, target_date[p])]
    /\ store' = VisibleAfterDelete(store, RowsToDelete(store, target_date[p]))
    /\ idx' = [idx EXCEPT ![p] = 1]
    /\ pc' = [pc EXCEPT ![p] = "loop"]
    /\ UNCHANGED <<beaches, broken, target_date, cached_predictions, session_new,
                   results, response, path, called, attempted, commits, envok,
                   tempfail>>

\* lines 230-232 raising (the database refuses the DELETE), lines 289-291:
\* rollback
InvalidateFails(p) ==
    /\ UNCHANGED <<cvars, dvars, fvars>>
    /\ pc[p] = "invalidate"
    /\ response' = [response EXCEPT ![p] = OuterExcept("500")]
    /\ path' = [path EXCEPT ![p] = "refused"]
    /\ pc' = [pc EXCEPT ![p] = "done"]
    /\ store' = RollbackStore(store, session_deleted[p], session_new[p])
    /\ UNCHANGED <<beaches, broken, target_date, cached_predictions, session_deleted,
                   session_new, results, idx, called, attempted, commits, envok,
                   tempfail>>

\* lines 234-279: one iteration of the loop over the beaches
SiteStep(p) ==
    /\ UNCHANGED <<cvars, dvars, fvars>>
    /\ pc[p] = "loop"
    /\ LET todo == BeachesToCompute(beaches, cached_predictions[p]) IN
       /\ idx[p] <= Len(todo)
       /\ \E current \in {Raised, Some(1)}, wind \in {Raised, Some(1)},
             predicted \in {Raised} \cup {Some(m) : m \in Masses},
             fetched \in {Raised} \cup {Some(t) : t \in Temps} :
            LET s == todo[idx[p]]
                ok == current # Raised /\ wind # Raised /\ predicted # Raised
                r == SiteResult(s, target_date[p], current, wind, predicted, fetched)
            IN /\ s \in broken => ~ok
               /\ ok \/ fetched = Raised    \* fetch_temperature is reached only after line 240
               /\ called' = [called EXCEPT ![p] = CallsOf(current, wind, predicted) > 0]
               /\ attempted' = [attempted EXCEPT ![p] = Append(@, s)]
               /\ envok' = [envok EXCEPT ![p] = IF ok THEN @ \cup {s} ELSE @]
               /\ tempfail' = [tempfail EXCEPT
                                  ![p] = IF ok /\ fetched = Raised THEN @ \cup {s} ELSE @]
               /\ IF r = Raised
                  THEN UNCHANGED <<session_new, results>>
                  ELSE /\ session_new' = [session_new EXCEPT ![p] = Append(@, r[1])]
                       /\ results' = [results EXCEPT ![p] =
                              Append(@, BeachPredictionResponse(
                                  s, target_date[p], Latitude(s), Longitude(s),
                                  r[1].trash_amount, r[1].status, r[1].temperature))]
       /\ idx' = [idx EXCEPT ![p] = @ + 1]
       /\ pc' = [pc EXCEPT ![p] = IF idx[p] = Len(todo) THEN "commit" ELSE "loop"]
    /\ UNCHANGED <<beaches, store, broken, target_date, cached_predictions,
                   session_deleted, response, path, commits>>

\* lines 281-291: db.commit(), then the check of the result list; the rollback
\* of line 290 after the commit has nothing left to undo
Commit(p) ==
    /\ UNCHANGED <<cvars, dvars, fvars>>
    /\ pc[p] = "commit"
    /\ store' = CommitStore(store, session_deleted[p], session_new[p])
    /\ commits' = [commits EXCEPT ![p] = @ + 1]
    \* the rows this commit removes are gone for the other sessions' DELETEs too
    /\ session_deleted' = [q \in Procs |->
                              IF q = p THEN EmptyBag
                              ELSE session_deleted[q] (-) session_deleted[p]]
    /\ session_new' = [session_new EXCEPT ![p] = <<>>]
    /\ response' = [response EXCEPT ![p] = ResponseOf(results[p])]
    /\ pc' = [pc EXCEPT ![p] = "done"]
    /\ UNCHANGED <<beaches, broken, target_date, cached_predictions, results, idx, path,
                   called, attempted, envok, tempfail>>

\* line 282 raising (the database refuses the commit), lines 289-291: rollback
CommitFails(p) ==
    /\ UNCHANGED <<cvars, dvars, fvars>>
    /\ pc[p] = "commit"
    /\ session_deleted' = [session_deleted EXCEPT ![p] = EmptyBag]
    /\ session_new' = [session_new EXCEPT ![p] = <<>>]
    /\ response' = [response EXCEPT ![p] = "500"]
    /\ path' = [path EXCEPT ![p] = "failed"]
    /\ pc' = [pc EXCEPT ![p] = "done"]
    /\ store' = RollbackStore(store, session_deleted[p], session_new[p])
    /\ UNCHANGED <<beaches, broken, target_date, cached_predictions, results, idx,
                   called, attempted, commits, envok, tempfail>>

\* the response is sent and the session closed (get_db, database.py lines 31-37)
Return(p) ==
    /\ UNCHANGED <<cvars, dvars, fvars>>
    /\ pc[p] = "done"
    /\ pc' = [pc EXCEPT ![p] = "idle"]
    /\ target_date' = [target_date EXCEPT ![p] = 0]
    /\ cached_predictions' = [cached_predictions EXCEPT ![p] = EmptyBag]
    /\ session_deleted' = [session_deleted EXCEPT ![p] = EmptyBag]
    /\ session_new' = [session_new EXCEPT ![p] = <<>>]
    /\ results' = [results EXCEPT ![p] = <<>>]
    /\ idx' = [idx EXCEPT ![p] = 0]
    /\ response' = [response EXCEPT ![p] = "none"]
    /\ path' = [path EXCEPT ![p] = "none"]
    /\ called' = [called EXCEPT ![p] = FALSE]
    /\ attempted' = [attempted EXCEPT ![p] = <<>>]
    /\ commits' = [commits EXCEPT ![p] = 0]
    /\ envok' = [envok EXCEPT ![p] = {}]
    /\ tempfail' = [tempfail EXCEPT ![p] = {}]
    /\ UNCHANGED <<beaches, store, broken>>

Step(p) ==
    \/ Invalidate(p)
    \/ SiteStep(p)
    \/ Commit(p)
    \/ CommitFails(p)
    \/ Return(p)

\* sequential use: requests never overlap, one request slot serves them all;
\* the date may be malformed and the DELETE may be refused
Next ==
    \/ \E prediction_date \in DateInputs, now \in Dates : Request(1, prediction_date, now)
    \/ InvalidateFails(1)
    \/ Step(1)
Spec == Init /\ [][Next]_vars

\* overlapping requests with well-formed dates, over a populated registry whose
\* providers may all answer
ConcInit == Init /\ beaches = Registry /\ broken = {}
ConcNext == \E p \in Procs : (\E d \in Dates : Lookup(p, d)) \/ Step(p)
ConcSpec == ConcInit /\ [][ConcNext]_vars

\* ------------------------------------------------- the classifiers alone
\* amounts on both sides of every threshold of the three scales, and far from them
Thresholds == {Kg(200), Kg(250), Kg(300), Kg(400)}
Amounts ==
    {t + e : t \in Thresholds, e \in (0 - Near)..Near} \cup {Kg(0 - 50), 0 - 1, 0, Kg(1000)}
Statuses == {"LOW", "MEDIUM", "HIGH"}

ClassInit ==
    /\ PredictionInit /\ beaches = Registry /\ broken = {}
    /\ DashIdle /\ FetchIdle
    /\ mass \in Amounts
    /\ stored_status \in Statuses
    /\ classified = None

\* trash.py lines 99-105 for the mass, and dashboard.py lines 165-166 for a
\* record pred that carries the mass
Classify ==
    /\ classified = None
    /\ LET pred == [trash_amount |-> mass, status |-> stored_status] IN
       classified' = Some([status |-> TrashStatus(mass),
                           risk_level |-> calculate_risk_level(pred.trash_amount),
                           action_required |-> calculate_action_type(pred.trash_amount)])
    /\ UNCHANGED <<pvars, dvars, fvars, mass, stored_status>>

ClassNext == Classify
ClassSpec == ClassInit /\ [][ClassNext]_vars

\* ------------------------------------------------------------ the dashboard
\* dashboard.py lines 192-193
month_names ==
    <<"Jan", "Feb", "Mar", "Apr", "May", "Jun", "Jul", "Aug", "Sep", "Oct", "Nov", "Dec">>

\* line 101: date(current_year, current_month, 1)
FirstDayOfMonth(t) == DateOf(YearOf(t), MonthOf(t), 1)

\* lines 104-110
FirstDayOfLastMonth(t) ==
    IF MonthOf(t) = 1 THEN DateOf(YearOf(t) - 1, 12, 1)
    ELSE DateOf(YearOf(t), MonthOf(t) - 1, 1)

LastDayIsFirstOfMonth(t) == FirstDayOfMonth(t)

\* line 111: first_day_of_month - timedelta(days=1)
LastDayOfLastMonth(t) == FirstDayOfMonth(t) - 1

\* lines 118-119, 146-147, 203-204: extract('year') and extract('month')
RowsOfMonth(rows, y, m) ==
    [r \in {x \in DOMAIN rows : YearOf(x.prediction_date) = y
                                  /\ MonthOf(x.prediction_date) = m} |-> rows[r]]

\* lines 128-129
RowsBetween(rows, first, last) ==
    [r \in {x \in DOMAIN rows : x.prediction_date >= first
                                  /\ x.prediction_date <= last} |-> rows[r]]

RECURSIVE SumOver(_, _)
SumOver(rows, S) ==
    IF S = {} THEN 0
    ELSE LET r == CHOOSE x \in S : TRUE
         IN rows[r] * r.trash_amount + SumOver(rows, S \ {r})

\* func.sum(BeachPrediction.trash_amount): NULL over no rows
func_sum(rows) == IF rows = EmptyBag THEN None ELSE Some(SumOver(rows, DOMAIN rows))

\* lines 122, 132, 207: float(total) if total else 0.0
FloatOrZero(total) == IF total = None \/ total = Some(0) THEN 0 ELSE total[1]

\* round(): the whole number nearest to num / den (den > 0); half way between
\* two, a float goes up or down with its binary digits, here with `up`
Round(num, den, up) ==
    LET lo == num \div den
        rest == num - lo * den
    IN IF 2 * rest < den THEN lo
       ELSE IF 2 * rest > den THEN lo + 1
       ELSE IF up THEN lo + 1 ELSE lo

\* round(x, 2) of an amount, in thousandths of a kilogram
Round2(x, up) == 10 * Round(x, 10, up)

ChangeRateOfCurrent(current_total, last_month_total, up) ==
    IF current_total > 0
    THEN Round((current_total - last_month_total) * 1000, current_total, up)
    ELSE 0

\* lines 135-138 and 218: round(change_rate, 1), in tenths of a percent
ChangeRate(current_total, last_month_total, up) ==
    IF last_month_total > 0
    THEN Round((current_total - last_month_total) * 1000, last_month_total, up)
    ELSE 0

RowsOfName(rows, name) == [r \in {x \in DOMAIN rows : x.beach_name = name} |-> rows[r]]

\* lines 142-148: for each beach_name with rows in the month, the greatest
\* prediction_date of these rows
MaxDates(rows, y, m) ==
    LET month == RowsOfMonth(rows, y, m)
        max_date(name) ==
            LET dates == {r.prediction_date : r \in DOMAIN RowsOfName(month, name)}
            IN CHOOSE d \in dates : \A e \in dates : e <= d
    IN {<<name, max_date(name)>> : name \in NamesOf(month)}

\* lines 150-154: the rows joined to the subquery on beach_name and max_date
LatestRows(rows, y, m) ==
    LET subquery == MaxDates(rows, y, m)
    IN [r \in {x \in DOMAIN rows : <<x.beach_name, x.prediction_date>> \in subquery}
           |-> rows[r]]

\* lines 165-166, 178-185
RiskArea(pred) ==
    [beach_name |-> pred.beach_name, predicted_amount |-> pred.trash_amount,
     risk_level |-> calculate_risk_level(pred.trash_amount),
     action_required |-> calculate_action_type(pred.trash_amount),
     latitude |-> pred.latitude, longitude |-> pred.longitude]

\* insert x behind every entry of the sorted list that is not smaller
RECURSIVE InsertBehind(_, _)
InsertBehind(sorted, x) ==
    IF sorted = <<>> THEN <<x>>
    ELSE IF Head(sorted).predicted_amount >= x.predicted_amount
         THEN <<Head(sorted)>> \o InsertBehind(Tail(sorted), x)
         ELSE <<x>> \o sorted

\* insert x before every entry of the sorted list that is not greater
RECURSIVE InsertBefore(_, _)
InsertBefore(sorted, x) ==
    IF sorted = <<>> THEN <<x>>
    ELSE IF Head(sorted).predicted_amount > x.predicted_amount
         THEN <<Head(sorted)>> \o InsertBefore(Tail(sorted), x)
         ELSE <<x>> \o sorted

RECURSIVE SortTiesReversed(_)
SortTiesReversed(areas) ==
    IF areas = <<>> THEN <<>>
    ELSE InsertBefore(SortTiesReversed(SubSeq(areas, 1, Len(areas) - 1)), areas[Len(areas)])

\* line 188: risk_areas.sort(key=lambda x: x.predicted_amount, reverse=True);
\* list.sort is stable, with reverse=True too
RECURSIVE SortByAmount(_)
SortByAmount(areas) ==
    IF areas = <<>> THEN <<>>
    ELSE InsertBehind(SortByAmount(SubSeq(areas, 1, Len(areas) - 1)), areas[Len(areas)])

\* lines 157-176: the counters of the loop over current_predictions
CountRisk(areas, risk_level) ==
    Cardinality({i \in DOMAIN areas : areas[i].risk_level = risk_level})
CountAction(areas, action_types) ==
    Cardinality({i \in DOMAIN areas : areas[i].action_required \in action_types})

TrendOffsetsForward == <<0, 1, 2, 3, 4, 5>>

\* line 195: range(5, -1, -1)
TrendOffsets == <<5, 4, 3, 2, 1, 0>>

\* the first day of the month i calendar months before the month of t
RECURSIVE TrendTargetCalendar(_, _)
TrendTargetCalendar(t, i) ==
    IF i = 0 THEN FirstDayOfMonth(t) ELSE TrendTargetCalendar(FirstDayOfLastMonth(t), i - 1)

\* line 196: today - timedelta(days=30 * i)
TrendTarget(t, i) == t - 30 * i

\* lines 196-213: the point of the trend for i
MonthlyTrend(rows, t, i, up) ==
    LET target == TrendTarget(t, i)    \* target_date
        target_year == YearOf(target)
        target_month == MonthOf(target)
        month_total == FloatOrZero(func_sum(RowsOfMonth(rows, target_year, target_month)))
    IN [month |-> month_names[target_month], year |-> target_year,
        total_amount |-> Round2(month_total, up)]

\* lines 96-230: the response for the rows of the table, the date of the call
\* and the rows of the query of lines 150-154 in the order it returned them
DashboardResponse(rows, t, latest, up) ==
    LET current_year == YearOf(t)
        current_month == MonthOf(t)
        current_total == FloatOrZero(func_sum(RowsOfMonth(rows, current_year, current_month)))
        last_month_total ==
            FloatOrZero(func_sum(RowsBetween(rows, FirstDayOfLastMonth(t),
                                             LastDayOfLastMonth(t))))
        areas == [i \in DOMAIN latest |-> RiskArea(latest[i])]
    IN [target_month |-> <<current_year, current_month>>,
        summary |->
            [total_predicted_amount |-> Round2(current_total, up),
             previous_month_change |-> ChangeRate(current_total, last_month_total, up),
             high_risk_count |-> CountRisk(areas, "HIGH"),
             medium_risk_count |-> CountRisk(areas, "MEDIUM"),
             immediate_action_count |-> CountAction(areas, {"IMMEDIATE"}),
             regular_check_count |-> CountAction(areas, {"REGULAR", "WATCH"})],
        monthly_trends |->
            [k \in DOMAIN TrendOffsets |-> MonthlyTrend(rows, t, TrendOffsets[k], up)],
        risk_areas |-> SortByAmount(areas)]

\* the dates on which the dashboard is asked for
Todays ==
    {DateOf(2025, 12, 18), DateOf(2025, 1, 15), DateOf(2025, 3, 31), DateOf(2024, 7, 1)}

\* the rows the table may hold on such a day: of the day, of the day after, of
\* the first and the last day of the month before, and of sixty days before
DashDates(t) == {t + 1, t, LastDayOfLastMonth(t), FirstDayOfLastMonth(t), t - 60}
DashMasses == {Kg(450), Kg(300) + 4, 0 - Kg(100)}
DashRows(t) ==
    {BeachPrediction(b, d, Latitude(b), Longitude(b), m, TrashStatus(m), None) :
        b \in Sites, d \in DashDates(t), m \in DashMasses}
Tables(t) ==
    {SeqToBag(q) : q \in UNION {[1..n -> DashRows(t)] : n \in 0..MaxRows}}

DashInit ==
    /\ beaches = Registry /\ broken = {}
    /\ SessionsIdle
    /\ ClassIdle /\ FetchIdle
    /\ today \in Todays
    /\ store \in Tables(today)
    /\ current_predictions = <<>>
    /\ dashboard = None

\* lines 85-235: get_dashboard, a reader of the table
GetDashboard ==
    /\ dashboard = None
    /\ \E latest \in QueryOrders(LatestRows(store, YearOf(today), MonthOf(today))),
          up \in BOOLEAN :
          /\ current_predictions' = latest
          /\ dashboard' = Some(DashboardResponse(store, today, latest, up))
    /\ UNCHANGED <<pvars, cvars, fvars, today>>

DashNext == GetDashboard
DashSpec == DashInit /\ [][DashNext]_vars

\* ------------------------------------------------------- fetch_current alone
\* grid points around the two points asked for, in half degrees: of <<1, 0>>
\* two lie at distance 0.5 degree and one at 2.0, of <<0, 0>> all differ
GridPoints == {<<0, 0>>, <<2, 0>>, <<1, 4>>}
QueryPoints == {<<1, 0>>, <<0, 0>>}
\* direction and speed of an item
CurrentValues == {<<10, 1>>, <<20, 2>>}

CurrentItem(point, v) ==
    [k \in CurrentKeys |->
        IF k = "pre_lat" THEN point[1] ELSE IF k = "pre_lon" THEN point[2]
        ELSE IF k = "current_dir" THEN v[1] ELSE v[2]]
\* an item without the key, lying on a point asked for
ItemWithout(key) ==
    [k \in CurrentKeys \ {key} |->
        IF k = "pre_lat" THEN 1 ELSE IF k = "pre_lon" THEN 0
        ELSE IF k = "current_dir" THEN 30 ELSE 3]
CurrentItems ==
    {CurrentItem(point, v) : point \in GridPoints, v \in CurrentValues}
        \cup {ItemWithout(key) : key \in CurrentKeys}
CurrentResponses ==
    {None} \cup {Some(items) : items \in UNION {[1..n -> CurrentItems] : n \in 0..MaxItems}}

CurrentInit ==
    /\ PredictionInit /\ beaches = Registry /\ broken = {}
    /\ ClassIdle /\ DashIdle
    /\ fetch_point \in QueryPoints
    /\ fetch_data \in CurrentResponses
    /\ fetch_result = None

\* fetchers.py lines 45-70 for the response received
FetchCurrent ==
    /\ fetch_result = None
    /\ fetch_result' = Some(fetch_current(fetch_data, fetch_point[1], fetch_point[2]))
    /\ UNCHANGED <<pvars, cvars, dvars, fetch_point, fetch_data>>

CurrentNext == FetchCurrent
CurrentSpec == CurrentInit /\ [][CurrentNext]_vars

\* ---------------------------------------------------------- fetch_wind alone
\* a reading with the fields given; "missing" leaves the key out
Reading(wndrct, wspd) ==
    [k \in {x \in {"wndrct", "wspd"} : (x = "wndrct" /\ wndrct # "missing")
                                           \/ (x = "wspd" /\ wspd # "missing")} |->
        IF k = "wndrct" THEN wndrct ELSE wspd]
\* complete readings, and readings with a field null or missing
Readings ==
    {Reading(Some(dir), Some(speed)) : dir \in {90, 270}, speed \in {3, 6}}
        \cup {Reading("missing", Some(6)), Reading(None, Some(6)),
              Reading(Some(270), "missing"), Reading(Some(270), None),
              Reading(None, None), Reading("missing", "missing")}
ResultCodes == {"00", "03"}
WindResponses ==
    {[header |-> h, body |-> b] :
        h \in {None} \cup {Some(c) : c \in ResultCodes},
        b \in {None} \cup {Some(items) : items \in UNION {[1..n -> Readings] : n \in 0..MaxReadings}}}

WindInit ==
    /\ PredictionInit /\ beaches = Registry /\ broken = {}
    /\ ClassIdle /\ DashIdle
    /\ fetch_point = <<0, 0>>
    /\ fetch_data \in WindResponses
    /\ fetch_result = None

\* fetchers.py lines 96-125 for the response received
FetchWind ==
    /\ fetch_result = None
    /\ fetch_result' = Some(fetch_wind(fetch_data))
    /\ UNCHANGED <<pvars, cvars, dvars, fetch_point, fetch_data>>

WindNext == FetchWind
WindSpec == WindInit /\ [][WindNext]_vars

\* ----------------------------------------- the cache and the dashboard together
\* requests for several dates, one after the other, and the dashboard read at
\* any moment in between: the day of the dashboard and the days before it
FrameToday == DateOf(2024, 7, 1)
FrameDates == {FrameToday - k : k \in 0..NumDates}

FrameInit ==
    /\ beaches = Registry /\ broken = {} /\ store = EmptyBag
    /\ SessionsIdle
    /\ ClassIdle /\ FetchIdle
    /\ today = FrameToday
    /\ current_predictions = <<>>
    /\ dashboard = None

\* the response of get_dashboard is sent
DashboardReturn ==
    /\ dashboard # None
    /\ dashboard' = None
    /\ current_predictions' = <<>>
    /\ UNCHANGED <<pvars, cvars, fvars, today>>

FrameNext ==
    \/ \E d \in FrameDates : Lookup(1, d)
    \/ InvalidateFails(1)
    \/ Step(1)
    \/ GetDashboard
    \/ DashboardReturn
FrameSpec == FrameInit /\ [][FrameNext]_vars

\* ------------------------------------------------------------- properties
AllNames == Range(beaches)
Stored(d) == RowsOf(store, d)
Count(rows, s, d) == BagCardinality(RowsFor(rows, s, d))
\* the request read a date with records for some, not all, of the registry
Partial(p) ==
    /\ NamesOf(cached_predictions[p]) # {}
    /\ NamesOf(cached_predictions[p]) # AllNames
\* the list is the rows, each turned into its response entry, in some order
IsListOf(list, rows) ==
    \E order \in QueryOrders(rows) :
        list = [i \in 1..Len(order) |-> ResponseOfRow(order[i])]
ResultNames(p) == {results[p][i].name : i \in 1..Len(results[p])}

C2_Recompute ==
    \A p \in Procs :
        /\ (pc[p] = "invalidate") => (attempted[p] = <<>> /\ ~called[p] /\ commits[p] = 0)
        /\ (pc[p] \in {"loop", "commit"}) =>
              /\ session_deleted[p] = cached_predictions[p]
              /\ Stored(target_date[p]) = cached_predictions[p]
              /\ commits[p] = 0
              /\ attempted[p] = SubSeq(beaches, 1, idx[p] - 1)
              /\ pc[p] = "commit" => attempted[p] = beaches
        /\ (pc[p] = "done" /\ path[p] = "miss") =>
              /\ attempted[p] = beaches
              /\ commits[p] = 1
              /\ IsListOf(results[p], Stored(target_date[p]))
C2_Witness ==
    \E p \in Procs :
        /\ pc[p] = "done" /\ path[p] = "miss" /\ commits[p] = 1
        /\ cached_predictions[p] # EmptyBag
        /\ NamesOf(cached_predictions[p]) \cap ResultNames(p) # {}

C4_ZeroSuccessRollsBack ==
    \A p \in Procs :
        (pc[p] = "done" /\ path[p] = "miss" /\ envok[p] = {}) =>
            /\ response[p] = "500"
            /\ Stored(target_date[p]) = cached_predictions[p]

\* what the code does instead of C4: the answer is an error, and the date is
\* left without any row
C4_ZeroSuccessEmptiesDate ==
    \A p \in Procs :
        (pc[p] = "done" /\ path[p] = "miss" /\ envok[p] = {}) =>
            /\ response[p] = "500"
            /\ Stored(target_date[p]) = EmptyBag

\* C5: a request that finds records for some but not all beaches of its date
\* takes the recompute path, its DELETE covers the partial records, and the
\* per-site step runs for every beach, those with a record included (unless
\* the database refuses the DELETE, which ends the request).
C5_PartialIsRecomputed ==
    \A p \in Procs :
        (pc[p] # "idle" /\ Partial(p)) =>
            /\ path[p] \in {"miss", "failed", "refused"}
            /\ pc[p] \in {"loop", "commit"} =>
                   /\ session_deleted[p] = cached_predictions[p]
                   /\ BeachesToCompute(beaches, cached_predictions[p]) = beaches
            /\ (pc[p] = "done" /\ path[p] # "refused") =>
                   /\ attempted[p] = beaches
                   /\ NamesOf(cached_predictions[p]) \subseteq Range(attempted[p])
C5_Witness ==
    \E p \in Procs :
        /\ pc[p] = "done" /\ path[p] = "miss" /\ Partial(p)
        /\ attempted[p] = beaches /\ Len(beaches) = NumSites

\* C6: the committed rows change only in the commit step of a request, and then
\* from the rows before to the rows before without the rows of the request's
\* DELETE and with its whole batch (one row per entry of its answer); no step
\* shows the DELETE alone or a part of the batch.
C6_AtomicRefresh ==
    [][store' # store =>
          \E p \in Procs :
              /\ pc[p] = "commit" /\ pc'[p] = "done"
              /\ Len(session_new[p]) = Len(results[p])
              /\ store' = (store (-) session_deleted[p]) (+) SeqToBag(session_new[p])]_vars
C6_Witness ==
    \E p \in Procs :
        /\ pc[p] = "commit"
        /\ session_deleted[p] # EmptyBag /\ session_new[p] # <<>>
        /\ Stored(target_date[p]) = session_deleted[p]

\* C7: with requests that do not overlap, no beach has two rows for one date.
C7_OneRowPerSiteAndDate ==
    \A s \in Sites, d \in Dates : Count(store, s, d) <= 1
C7_Witness ==
    \E p \in Procs :
        /\ pc[p] = "done" /\ path[p] = "miss" /\ commits[p] = 1
        /\ cached_predictions[p] # EmptyBag
        /\ NamesOf(Stored(target_date[p])) = AllNames

C9_NeverComplete ==
    (beaches # <<>> /\ broken \cap AllNames # {}) =>
        /\ \A d \in Dates : NamesOf(Stored(d)) # AllNames
        /\ \A p \in Procs :
               /\ path[p] # "hit"
               /\ (pc[p] = "done" /\ path[p] \in {"miss", "failed"}) => attempted[p] = beaches
               /\ pc[p] \in {"loop", "commit"} => session_deleted[p] = cached_predictions[p]
C9_Witness ==
    \E p \in Procs :
        /\ broken \cap AllNames # {}
        /\ pc[p] = "done" /\ path[p] = "miss" /\ response[p] = "200"
        /\ cached_predictions[p] # EmptyBag
        /\ NamesOf(cached_predictions[p]) = NamesOf(Stored(target_date[p]))

C11_CommitFailureRollsBack ==
    \A p \in Procs :
        (pc[p] = "done" /\ path[p] \in {"failed", "refused"}) =>
            /\ response[p] = "500"
            /\ commits[p] = 0
            /\ Stored(target_date[p]) = cached_predictions[p]
            /\ session_deleted[p] = EmptyBag /\ session_new[p] = <<>>
C11_Witness ==
    \E p \in Procs :
        /\ pc[p] = "done" /\ path[p] = "failed" /\ response[p] = "500"
        /\ cached_predictions[p] # EmptyBag /\ results[p] # <<>>
        /\ Stored(target_date[p]) = cached_predictions[p]

\* C12: with an empty registry a request ends at once with an error, before
\* the rows of the date are compared with the registry: no step changes the
\* stored rows, no external call is made, nothing is deleted or added, and the
\* request is never answered as a complete date with an empty list.
C12_EmptyRegistryRejected ==
    [][beaches = <<>> =>
          /\ store' = store
          /\ \A p \in Procs :
                 (pc'[p] # "idle" /\ path'[p] # "malformed") =>
                     /\ pc'[p] = "done" /\ response'[p] = "500"
                     /\ path'[p] = "none" /\ results'[p] = <<>>
                     /\ ~called'[p] /\ attempted'[p] = <<>> /\ commits'[p] = 0
                     /\ session_deleted'[p] = EmptyBag /\ session_new'[p] = <<>>]_vars
C12_Witness ==
    \E p \in Procs :
        /\ beaches = <<>> /\ store # EmptyBag
        /\ pc[p] = "done" /\ response[p] = "500" /\ path[p] = "none"

\* C13: a request whose prediction_date does not parse is answered 400, not
\* 500, without a change of the stored rows and without an external call.
C13_MalformedDateIs400 ==
    \A p \in Procs :
        (pc[p] = "done" /\ path[p] = "malformed") =>
            /\ response[p] = "400"
            /\ ~called[p] /\ commits[p] = 0
            /\ session_deleted[p] = EmptyBag /\ session_new[p] = <<>>

\* what the code does instead of C13: the answer is 500; nothing is called,
\* deleted, added or committed
C13_MalformedDateIs500 ==
    \A p \in Procs :
        (pc[p] = "done" /\ path[p] = "malformed") =>
            /\ response[p] = "500"
            /\ ~called[p] /\ commits[p] = 0
            /\ session_deleted[p] = EmptyBag /\ session_new[p] = <<>>

\* C14: the status of a record is decided by its mass alone, with exact
\* boundaries: LOW exactly below 200 kg (negative amounts included), MEDIUM
\* exactly from 200 kg up to but not including 300 kg, HIGH exactly from 300 kg.
C14_StatusBoundaries ==
    classified # None =>
        LET status == classified[1].status IN
        /\ status \in {"LOW", "MEDIUM", "HIGH"}
        /\ status = "LOW" <=> mass < Kg(200)
        /\ status = "MEDIUM" <=> (Kg(200) <= mass /\ mass < Kg(300))
        /\ status = "HIGH" <=> mass >= Kg(300)
C14_Witness ==
    /\ classified # None
    /\ mass = Kg(200) /\ classified[1].status = "MEDIUM"

\* C15: the risk level of the dashboard is decided by the mass alone, whatever
\* status the record stores: HIGH exactly from 400 kg, MEDIUM exactly from
\* 250 kg up to but not including 400 kg, LOW exactly below 250 kg.
C15_RiskLevelBoundaries ==
    classified # None =>
        LET risk_level == classified[1].risk_level IN
        /\ risk_level \in {"LOW", "MEDIUM", "HIGH"}
        /\ risk_level = "HIGH" <=> mass >= Kg(400)
        /\ risk_level = "MEDIUM" <=> (Kg(250) <= mass /\ mass < Kg(400))
        /\ risk_level = "LOW" <=> mass < Kg(250)
\* a mass between the two scales: the stored status says HIGH, the risk
\* level is MEDIUM
C15_Witness ==
    /\ classified # None
    /\ mass = Kg(300) /\ stored_status = "HIGH" /\ classified[1].status = "HIGH"
    /\ classified[1].risk_level = "MEDIUM"

\* C16: the action of the dashboard is decided by the mass alone: IMMEDIATE
\* exactly from 400 kg, MONITOR exactly from 300 kg up to but not including
\* 400 kg, REGULAR exactly from 200 kg up to but not including 300 kg, WATCH
\* exactly below 200 kg.
C16_ActionBoundaries ==
    classified # None =>
        LET action_required == classified[1].action_required IN
        /\ action_required \in {"IMMEDIATE", "MONITOR", "REGULAR", "WATCH"}
        /\ action_required = "IMMEDIATE" <=> mass >= Kg(400)
        /\ action_required = "MONITOR" <=> (Kg(300) <= mass /\ mass < Kg(400))
        /\ action_required = "REGULAR" <=> (Kg(200) <= mass /\ mass < Kg(300))
        /\ action_required = "WATCH" <=> mass < Kg(200)
C16_Witness ==
    /\ classified # None
    /\ mass = Kg(400) - 1 /\ classified[1].action_required = "MONITOR"

\* the dashboard's answer, and the sums of this month and of the month before
\* (0 over no rows)
Answer == dashboard[1]
Abs(x) == IF x < 0 THEN 0 - x ELSE x
MassSum(rows) == SumOver(rows, DOMAIN rows)
CurrentMonthRows == RowsOfMonth(store, YearOf(today), MonthOf(today))
CurrentSum == MassSum(CurrentMonthRows)
PreviousSum == MassSum(RowsBetween(store, FirstDayOfLastMonth(today), LastDayOfLastMonth(today)))

\* C17 as stated: the reported change is (cur - prev) / prev * 100 when
\* prev > 0, and 0 when prev <= 0 (the change is kept in tenths of a percent).
C17_ChangeRateExact ==
    dashboard # None =>
        IF PreviousSum > 0
        THEN Answer.summary.previous_month_change * PreviousSum
                 = (CurrentSum - PreviousSum) * 1000
        ELSE Answer.summary.previous_month_change = 0

\* C17 as amended: the reported change is (cur - prev) / prev * 100 rounded to
\* one decimal place (a tenth of a percent nearest to it) when prev > 0, and
\* exactly 0 when prev <= 0, an empty previous month included; no division by
\* zero is made.
C17_ChangeRateRounded ==
    dashboard # None =>
        IF PreviousSum > 0
        THEN 2 * Abs((CurrentSum - PreviousSum) * 1000
                     - Answer.summary.previous_month_change * PreviousSum) <= PreviousSum
        ELSE Answer.summary.previous_month_change = 0
\* 300.004 kg in the month before, 450 kg in this one: 49.998... is reported as 50.0
C17_Witness ==
    /\ dashboard # None
    /\ PreviousSum = Kg(300) + 4 /\ CurrentSum = Kg(450)
    /\ Answer.summary.previous_month_change = 500

\* C18: the risk areas are one per site that has a row in the current month,
\* the row of the site's greatest prediction date in the month; their number is
\* the number of such sites, and high_risk_count + medium_risk_count does not
\* exceed it.
C18_OneLatestRowPerSite ==
    dashboard # None =>
        LET names == NamesOf(CurrentMonthRows)
            areas == Answer.risk_areas
        IN /\ Len(areas) = Cardinality(names)
           /\ \A name \in names :
                  /\ Cardinality({i \in DOMAIN areas : areas[i].beach_name = name}) = 1
                  /\ \A i \in DOMAIN areas :
                         areas[i].beach_name = name =>
                             \E r \in DOMAIN CurrentMonthRows :
                                 /\ r.beach_name = name
                                 /\ r.trash_amount = areas[i].predicted_amount
                                 /\ \A x \in DOMAIN CurrentMonthRows :
                                        x.beach_name = name =>
                                            x.prediction_date <= r.prediction_date
           /\ Answer.summary.high_risk_count + Answer.summary.medium_risk_count
                  <= Cardinality(names)

\* what the code does instead of C18: the risk areas are one per row whose date
\* is its site's greatest date in the current month, so a site with two rows of
\* that date has two risk areas; the claim holds of the tables in which no site
\* has two rows of one date
C18_OneAreaPerLatestRow ==
    dashboard # None =>
        LET latest == [r \in {y \in DOMAIN CurrentMonthRows :
                                  \A x \in DOMAIN CurrentMonthRows :
                                      x.beach_name = y.beach_name =>
                                          x.prediction_date <= y.prediction_date}
                          |-> CurrentMonthRows[r]]
        IN /\ SeqToBag(current_predictions) = latest
           /\ Len(Answer.risk_areas) = BagCardinality(latest)
           /\ (\A r \in DOMAIN store : Count(store, r.beach_name, r.prediction_date) = 1)
                  => C18_OneLatestRowPerSite

\* C19: the risk areas are the rows the query of the latest rows returned, each
\* turned into its entry, rearranged so that the amounts do not increase; rows
\* of equal amount stay in the order in which the query returned them.
C19_StableDescendingSort ==
    dashboard # None =>
        LET areas == Answer.risk_areas
            n == Len(current_predictions)
        IN /\ Len(areas) = n
           /\ \E perm \in {f \in [1..n -> 1..n] : \A i, j \in 1..n : f[i] = f[j] => i = j} :
                  /\ \A i \in 1..n : areas[i] = RiskArea(current_predictions[perm[i]])
                  /\ \A i, j \in 1..n :
                         i < j =>
                             /\ areas[i].predicted_amount >= areas[j].predicted_amount
                             /\ areas[i].predicted_amount = areas[j].predicted_amount
                                    => perm[i] < perm[j]
\* two sites of equal amount, returned by the query in the order 2, 1
C19_Witness ==
    /\ dashboard # None
    /\ Len(current_predictions) = 2
    /\ current_predictions[1].beach_name = 2 /\ current_predictions[2].beach_name = 1
    /\ current_predictions[1].trash_amount = current_predictions[2].trash_amount
    /\ Answer.risk_areas[1].beach_name = 2 /\ Answer.risk_areas[2].beach_name = 1

\* the date of the trend point at position k (i = 5 for the first, 0 for the last)
TrendDate(k) == today - 30 * (6 - k)
TrendSum(k) == MassSum(RowsOfMonth(store, YearOf(TrendDate(k)), MonthOf(TrendDate(k))))
TrendShape ==
    /\ Len(Answer.monthly_trends) = 6
    /\ \A k \in 1..6 :
           /\ Answer.monthly_trends[k].year = YearOf(TrendDate(k))
           /\ Answer.monthly_trends[k].month = month_names[MonthOf(TrendDate(k))]
    /\ Answer.monthly_trends[6].year = YearOf(today)
    /\ Answer.monthly_trends[6].month = month_names[MonthOf(today)]

\* C20 as stated: six points, for i = 5, 4, 3, 2, 1, 0 in this order, each with
\* the year and month of today - 30 * i days and the sum of the amounts of the
\* rows of that year and month, the last being the current month.
C20_TrendExact ==
    dashboard # None =>
        /\ TrendShape
        /\ \A k \in 1..6 : Answer.monthly_trends[k].total_amount = TrendSum(k)

\* C20 as amended: six points, for i = 5, 4, 3, 2, 1, 0 in this order, each with
\* the year and month of today - 30 * i days and the sum of the amounts of the
\* rows of that year and month rounded to two decimal places (0 when there are
\* none), the last being the current month.
C20_TrendRounded ==
    dashboard # None =>
        /\ TrendShape
        /\ \A k \in 1..6 :
               /\ Answer.monthly_trends[k].total_amount % 10 = 0
               /\ 2 * Abs(Answer.monthly_trends[k].total_amount - TrendSum(k)) <= 10
\* 2025-12-18: 600.008 kg sixty days before (October) are reported as 600.01
C20_Witness ==
    /\ dashboard # None /\ today = DateOf(2025, 12, 18)
    /\ Answer.monthly_trends[4].month = "Oct" /\ Answer.monthly_trends[4].year = 2025
    /\ TrendSum(4) = Kg(600) + 8
    /\ Answer.monthly_trends[4].total_amount = Kg(600) + 10
    /\ Answer.monthly_trends[1].month = "Jul" /\ Answer.monthly_trends[6].month = "Dec"

\* the items of a response that carry the four fields, by position
Candidates(items) == {i \in DOMAIN items : CurrentKeys \subseteq DOMAIN items[i]}
SquaredDistanceTo(point, d) ==
    (point[1] - d["pre_lat"]) * (point[1] - d["pre_lat"])
        + (point[2] - d["pre_lon"]) * (point[2] - d["pre_lon"])

\* C21: fetch_current returns the direction and the speed of the first, in
\* response order, of the items nearest to the point asked for among the items
\* that carry current_dir, current_speed, pre_lat and pre_lon; the response
\* without its other items gives the same; it raises when no item carries the
\* four fields (and when the response has no data list).
C21_NearestFirstCandidate ==
    fetch_result # None =>
        IF fetch_data = None THEN fetch_result[1].error = "format"
        ELSE LET items == fetch_data[1]
                 cands == Candidates(items)
             IN /\ cands = {} <=> fetch_result[1].error # "none"
                /\ cands = {} => fetch_result[1].error = "nodata"
                /\ cands # {} =>
                       \E i \in cands :
                           /\ fetch_result[1].value =
                                  <<items[i]["current_dir"], items[i]["current_speed"]>>
                           /\ \A j \in cands :
                                  /\ SquaredDistanceTo(fetch_point, items[i])
                                         <= SquaredDistanceTo(fetch_point, items[j])
                                  /\ j < i => SquaredDistanceTo(fetch_point, items[i])
                                                  < SquaredDistanceTo(fetch_point, items[j])
                /\ fetch_result[1] =
                       fetch_current(Some(SelectSeq(items, LAMBDA d : CurrentKeys \subseteq DOMAIN d)),
                                     fetch_point[1], fetch_point[2])
\* candidates at 2.0, 0.5 and 0.5 degree behind an item without a latitude that
\* lies on the point itself: the first of the two at 0.5 is returned
C21_Witness ==
    /\ fetch_result # None /\ fetch_data # None /\ fetch_point = <<1, 0>>
    /\ fetch_data[1] = <<ItemWithout("pre_lat"), CurrentItem(<<1, 4>>, <<10, 1>>),
                         CurrentItem(<<2, 0>>, <<20, 2>>), CurrentItem(<<0, 0>>, <<10, 1>>)>>
    /\ fetch_result[1] = Returned(<<20, 2>>)

\* the readings with a direction and a speed, both present and not null, by
\* position
ValidReadings(items) ==
    {i \in DOMAIN items : /\ {"wndrct", "wspd"} \subseteq DOMAIN items[i]
                          /\ items[i]["wndrct"] # None /\ items[i]["wspd"] # None}
RECURSIVE SumOfField(_, _, _)
SumOfField(items, S, key) ==
    IF S = {} THEN 0
    ELSE LET i == CHOOSE x \in S : TRUE
         IN items[i][key][1] + SumOfField(items, S \ {i}, key)

\* C22: fetch_wind returns the mean direction and the mean speed over exactly
\* the readings in which direction and speed are both present and not null; it
\* raises the no-data error when there is none, and the provider error when the
\* result code of the header is not "00", whatever the readings.
C22_MeanOfValidReadings ==
    fetch_result # None =>
        /\ (fetch_data.header # None /\ fetch_data.header[1] # "00")
               => fetch_result[1].error = "provider"
        /\ (fetch_data.header = Some("00") /\ fetch_data.body # None) =>
               LET items == fetch_data.body[1]
                   valid == ValidReadings(items)
                   n == Cardinality(valid)
               IN /\ valid = {} <=> fetch_result[1].error = "nodata"
                  /\ valid # {} =>
                         /\ fetch_result[1].error = "none"
                         /\ fetch_result[1].value[1][2] > 0 /\ fetch_result[1].value[2][2] > 0
                         /\ fetch_result[1].value[1][1] * n
                                = SumOfField(items, valid, "wndrct") * fetch_result[1].value[1][2]
                         /\ fetch_result[1].value[2][1] * n
                                = SumOfField(items, valid, "wspd") * fetch_result[1].value[2][2]
\* three readings, one with a null speed and a direction of its own: the means
\* are those of the other two, (90 + 270) / 2 and (3 + 6) / 2
C22_Witness ==
    /\ fetch_result # None /\ fetch_data.header = Some("00") /\ fetch_data.body # None
    /\ fetch_data.body[1] = <<Reading(Some(90), Some(3)), Reading(Some(270), None),
                              Reading(Some(270), Some(6))>>
    /\ fetch_result[1] = Returned(<<<<360, 2>>, <<9, 2>>>>)

\* the months counted from year 0, of a date and of a point of the trend
MonthIndex(d) == YearOf(d) * 12 + MonthOf(d)
PointIndex(point) ==
    point.year * 12 + (CHOOSE m \in DOMAIN month_names : month_names[m] = point.month)

ThirtyDaySteps ==
    \A t \in 151..DateOf(2026, 12, 31) :
        /\ \A i \in 0..4 : MonthIndex(t - 30 * i) - MonthIndex(t - 30 * (i + 1)) \in {0, 1, 2}
        /\ MonthIndex(t) - MonthIndex(t - 150) \in {4, 5}

SameCopies(r) ==
    CopiesIn(r, store') = CopiesIn(r, store)

\* C24: a step changes the rows only as the commit of a recompute: the rows of
\* every other date stay as they are, the rows that go are exactly the rows the
\* DELETE of this request found for its own date, the rows that come are exactly
\* the objects it added, all of its own date, and every other row stays as it
\* is, field by field; the dashboard changes no row.
C24_Frame ==
    [][/\ store' # store =>
              \E p \in Procs :
                  /\ pc[p] = "commit" /\ pc'[p] = "done" /\ path[p] = "miss"
                  /\ \A r \in DOMAIN session_deleted[p] : r.prediction_date = target_date[p]
                  /\ \A i \in DOMAIN session_new[p] :
                         session_new[p][i].prediction_date = target_date[p]
                  /\ session_deleted[p] = cached_predictions[p]
                  /\ store' = (store (-) session_deleted[p]) (+) SeqToBag(session_new[p])
                  /\ \A r \in DOMAIN store \cup DOMAIN store' :
                         r.prediction_date # target_date[p] => SameCopies(r)
       /\ (dashboard' # dashboard \/ current_predictions' # current_predictions)
              => store' = store]_vars
\* a recompute of the day has replaced the day's rows while the rows of the day
\* before are there, and the dashboard has been read
C24_Witness ==
    /\ pc[1] = "done" /\ path[1] = "miss" /\ commits[1] = 1
    /\ target_date[1] = FrameToday
    /\ cached_predictions[1] # EmptyBag /\ results[1] # <<>>
    /\ Stored(FrameToday - 1) # EmptyBag
    /\ dashboard # None

\* the rows of the calendar month before the month of today
PreviousMonthRows ==
    [r \in {x \in DOMAIN store : MonthIndex(x.prediction_date) = MonthIndex(today) - 1}
        |-> store[r]]

\* on every day of the calendar from February 2024 on, the window of the month
\* before starts on the first day of the month before, ends on the day before
\* the first day of this month, and lies in one month; months never go back
\* from a day to the next
WindowIsTheMonthBefore ==
    /\ \A d \in 1..(DateOf(2026, 12, 31) - 1) : MonthIndex(d) <= MonthIndex(d + 1)
    /\ \A t \in DateOf(2024, 2, 1)..DateOf(2026, 12, 31) :
           /\ DayOf(FirstDayOfLastMonth(t)) = 1
           /\ MonthIndex(FirstDayOfLastMonth(t)) = MonthIndex(t) - 1
           /\ MonthIndex(LastDayOfLastMonth(t)) = MonthIndex(t) - 1
           /\ MonthIndex(LastDayOfLastMonth(t) + 1) = MonthIndex(t)
           /\ MonthOf(t) = 1 =>
                  /\ MonthOf(FirstDayOfLastMonth(t)) = 12
                  /\ YearOf(FirstDayOfLastMonth(t)) = YearOf(t) - 1

\* C25: the sum of the month before covers exactly the rows whose date lies in
\* the calendar month before the month of today, December of the year before
\* for a day of January: the window holds no day of the current month and lacks
\* no day of the month before, and the change reported is the one computed
\* from the rows of that month.
C25_PreviousMonthWindow ==
    /\ WindowIsTheMonthBefore
    /\ dashboard # None =>
           /\ RowsBetween(store, FirstDayOfLastMonth(today), LastDayOfLastMonth(today))
                  = PreviousMonthRows
           /\ \A r \in DOMAIN CurrentMonthRows : r \notin DOMAIN PreviousMonthRows
           /\ IF MassSum(PreviousMonthRows) > 0
              THEN 2 * Abs((CurrentSum - MassSum(PreviousMonthRows)) * 1000
                           - Answer.summary.previous_month_change * MassSum(PreviousMonthRows))
                       <= MassSum(PreviousMonthRows)
              ELSE Answer.summary.previous_month_change = 0
\* 2025-01-15 with a row of 2024-12-01 and a row of 2024-12-31 and none of
\* January: the change is -100.0
C25_Witness ==
    /\ dashboard # None /\ today = DateOf(2025, 1, 15)
    /\ \E r \in DOMAIN store : r.prediction_date = DateOf(2024, 12, 1)
    /\ \E r \in DOMAIN store : r.prediction_date = DateOf(2024, 12, 31)
    /\ BagCardinality(PreviousMonthRows) = 2 /\ MassSum(PreviousMonthRows) > 0
    /\ Answer.summary.previous_month_change = 0 - 1000

\* the date holds a record for every beach of the registry, and two for one
DuplicatesComplete(d) ==
    /\ NamesOf(Stored(d)) = AllNames
    /\ \E s \in Sites : Count(store, s, d) >= 2
\* no request for the date is between its completeness check and its end
NoneInFlight(d) ==
    \A p \in Procs : target_date[p] = d => pc[p] \in {"idle", "done"}

ConsistentRecord(r) ==
    /\ r.beach_name \in AllNames
    /\ r.latitude = Latitude(r.beach_name) /\ r.longitude = Longitude(r.beach_name)
    /\ r.status \in {"LOW", "MEDIUM", "HIGH"}
    /\ r.status = "LOW" <=> r.trash_amount < Kg(200)
    /\ r.status = "MEDIUM" <=> (Kg(200) <= r.trash_amount /\ r.trash_amount < Kg(300))
    /\ r.status = "HIGH" <=> r.trash_amount >= Kg(300)

LatestWithin(lo, hi) ==
    {i \in DOMAIN current_predictions :
        lo <= current_predictions[i].trash_amount /\ current_predictions[i].trash_amount < hi}
\* a mass below every mass and a mass above every mass of the tables
Lowest == 0 - Kg(1000000)
Highest == Kg(1000000)
\* no beach has two rows for one date
OneRowPerBeachAndDate ==
    \A r \in DOMAIN store : Count(store, r.beach_name, r.prediction_date) = 1

\* C29: in every summary high_risk_count equals immediate_action_count, both
\* being the number of latest rows with a mass of 400 kg or more;
\* regular_check_count is the number of latest rows with a mass below 300 kg;
\* the latest rows from 300 kg up to but not including 400 kg are in neither
\* action counter, so the two action counters together do not exceed the number
\* of risk areas and equal it exactly when no latest row lies in that range.
\* The latest rows are one per beach when no beach has two rows for one date.
C29_CounterRelations ==
    dashboard # None =>
        LET summary == Answer.summary
            monitored == Cardinality(LatestWithin(Kg(300), Kg(400)))
        IN /\ summary.high_risk_count = summary.immediate_action_count
           /\ summary.immediate_action_count = Cardinality(LatestWithin(Kg(400), Highest))
           /\ summary.regular_check_count = Cardinality(LatestWithin(Lowest, Kg(300)))
           /\ summary.immediate_action_count + summary.regular_check_count + monitored
                  = Len(Answer.risk_areas)
           /\ summary.immediate_action_count + summary.regular_check_count
                  <= Len(Answer.risk_areas)
           /\ (summary.immediate_action_count + summary.regular_check_count
                   = Len(Answer.risk_areas)) <=> (monitored = 0)
           /\ OneRowPerBeachAndDate =>
                  /\ Len(current_predictions) = Cardinality(NamesOf(CurrentMonthRows))
                  /\ \A i, j \in DOMAIN current_predictions :
                         current_predictions[i].beach_name = current_predictions[j].beach_name
                             => i = j
\* one beach at 450 kg and one at 300.004 kg: one immediate action, no regular
\* check, two risk areas
C29_Witness ==
    /\ dashboard # None /\ Len(Answer.risk_areas) = 2
    /\ Answer.risk_areas[1].beach_name # Answer.risk_areas[2].beach_name
    /\ Answer.risk_areas[1].predicted_amount = Kg(450)
    /\ Answer.risk_areas[2].predicted_amount = Kg(300) + 4
    /\ Answer.summary.high_risk_count = 1 /\ Answer.summary.immediate_action_count = 1
    /\ Answer.summary.regular_check_count = 0

\* the entry a record stands for: its name, date, coordinates, mass and
\* status, and its temperature, 0 when it has none
EntryOf(r) ==
    [name |-> r.beach_name, date |-> r.prediction_date, latitude |-> r.latitude,
     longitude |-> r.longitude, trash_amount |-> r.trash_amount, status |-> r.status,
     temperature |-> IF r.temperature = None THEN 0 ELSE r.temperature[1]]
\* the list has one entry per beach of the registry, and its entries are those
\* of the rows
OnePerBeachOf(list, rows) ==
    /\ Len(list) = Cardinality(AllNames)
    /\ {list[i].name : i \in DOMAIN list} = AllNames
    /\ Range(list) = {EntryOf(r) : r \in DOMAIN rows}

====
